---- MODULE Spec2Model ----
(***************************************************************************)
(* Model of the per-camera face recognition worker of                      *)
(* client/visitor_counter.py (run_visitor_counter and the functions it     *)
(* calls: capture_frames_for_person, select_best_frame,                    *)
(* compute_fused_embedding), of frame_quality.score_frames_dual and of     *)
(* ClientBridgeAPI.identify.                                               *)
(*                                                                         *)
(* Time is counted in ticks of 5 seconds.  The code only ever compares     *)
(* time.time() - last_capture_time with cooldown_seconds and               *)
(* time.time() - start_time with duration, so the model keeps these two    *)
(* differences, saturated at the value they are compared with.  In the     *)
(* same way frame_count of the main loop is only ever used modulo          *)
(* process_every_n and is kept modulo that number.                         *)
(*                                                                         *)
(* Scores are integers on the code's 0..1000 scale, detection confidences  *)
(* are in hundredths.  KeyboardInterrupt (operator shutdown) is not part   *)
(* of the model.                                                           *)
(***************************************************************************)
EXTENDS Integers, Sequences, FiniteSets, TLC

\* ---------------------------------------------------------------------------
\* Bounds of the model
\* ---------------------------------------------------------------------------
\* frames the source delivers at most during one capture window
MaxCaptureReads == 6
\* consecutive failed reads of the main loop that are told apart
MaxFailStreak == 3
\* largest fusion top_n tried
MaxTopN == 3
\* largest head / tail trim count tried
MaxSkip == 1
\* cameras the WorkerManager starts a worker for
NumCameras == 2
\* smallest sub-score tried by the penalty chain: 10 ^ (-MaxDecade)
MaxDecade == 4
\* frames of the longest PersonCapture handed to select_best_frame on its own
MaxTrimFrames == 10
\* largest head / tail trim count tried on such a PersonCapture
MaxTrimSkip == 10

\* ---------------------------------------------------------------------------
\* Configuration
\* ---------------------------------------------------------------------------
\* FaceRecognitionSettings.process_every_n_frames
process_every_n == 5
\* FaceRecognitionSettings.quality_frame_skip
frame_skip == 3
\* FaceRecognitionSettings.quality_capture_duration (5.0 s = 1 tick)
capture_duration == 1
\* FaceRecognitionSettings.cooldown_seconds (10 s = 2 ticks)
cooldown_seconds == 2
\* FaceRecognitionSettings.min_quality_score
min_quality_score == 350
\* FaceRecognitionSettings.min_detection_score (0.70, in hundredths)
min_detection_score == 70
\* compute_fused_embedding's weight_power = 0.3 = WeightPowerNum / WeightPowerDen
WeightPowerNum == 3
WeightPowerDen == 10

None == [none |-> TRUE]

Min(a, b) == IF a < b THEN a ELSE b

\* ---------------------------------------------------------------------------
\* Frames and quality scores
\* ---------------------------------------------------------------------------
\* QualityScore (frame_quality.py); sub-scores in thousandths
QualityScore(total, face_size, frontality, bbox) ==
    [total |-> total, face_size |-> face_size, sharpness |-> 1000,
     brightness |-> 1000, contrast |-> 1000, frontality |-> frontality,
     yaw |-> 0, pitch |-> 0, bbox |-> bbox]

\* the scores compute_quality_score gives the frames of the model: one under
\* min_quality_score, two different ones above it
LowScore == QualityScore(200, 200, 1000, <<40, 40, 112, 112>>)
PassingScores ==
    { QualityScore(500, 500, 1000, <<30, 30, 120, 120>>),
      QualityScore(900, 1000, 936, <<20, 20, 140, 140>>) }

\* what the embedding extractor reports for a frame: 0 = no face, else the
\* detection confidence of the first face
ExtractLevels == {0, 50, 90}

\* cfg.MIN_DET_CONF (0.50, in hundredths)
MIN_DET_CONF == 50

\* a face YuNet reports: its area w * h and its score, in hundredths
YuNetFace(area, score) == [area |-> area, score |-> score]

\* A frame of the source, described by what the three models make of it:
\*   yunet - the faces YuNet reports for the frame
\*   score - compute_quality_score of the frame (None: no face, or empty ROI)
\*   x     - extract_embeddings of the frame
\* (the extractor's result is only told apart where the code can come to ask
\* for it: on frames that have a score)
Frames ==
    { [yunet |-> <<>>, score |-> None, x |-> 0],
      [yunet |-> <<YuNetFace(16, 30)>>, score |-> None, x |-> 0],
      [yunet |-> <<YuNetFace(16, 30), YuNetFace(9, 80)>>, score |-> None, x |-> 0],
      [yunet |-> <<YuNetFace(9, MIN_DET_CONF)>>, score |-> LowScore, x |-> 90] }
    \cup [yunet : {<<YuNetFace(9, 80)>>}, score : PassingScores, x : ExtractLevels]

\* (frame_cropped, frame_resized) of one frame: crop_frame then resize_frame
FramePair(f) == [hires |-> f, lowres |-> f]

VARIABLES
    pc,                 \* position of the worker
    cfgv,               \* cfg.EMBEDDING_FUSION_TOP_N, cfg.FRAMES_SKIP_START/END
    cap_opened,         \* cap.isOpened()
    frame_count,        \* frame_count of the main loop, modulo process_every_n
    elapsed,            \* time.time() - last_capture_time, saturated
    capture,            \* the PersonCapture of the session, with the locals of capture_frames_for_person
    selection,          \* result of select_best_frame
    fusion,             \* result of compute_fused_embedding
    api_response,       \* result of api.identify
    fail_streak,        \* consecutive failed reads of the main loop, saturated
    sess,               \* history of the current / last session
    ev,                 \* what the last step did
    workers,            \* the workers WorkerManager has started, one per camera
    quality,            \* the frame compute_quality_score is working on
    manager             \* the WorkerManager of main(): its processes and its position

vars == <<pc, cfgv, cap_opened, frame_count, elapsed, capture, selection,
          fusion, api_response, fail_streak, sess, ev, workers, quality, manager>>

NoCapture == [frames |-> <<>>, trigger_frame |-> None, elapsed |-> 0,
              frame_count |-> 0, stopped |-> FALSE]
NoSelection == [best_frame_hires |-> None, best_frame_lowres |-> None,
                best_score |-> None, scored_frames |-> <<>>, fallback |-> FALSE]
NoFusion == [ran |-> FALSE, fused_embedding |-> None, fusion_details |-> <<>>,
             api_frame |-> None, api_bbox |-> None, extracted |-> <<>>]
NoResponse == [success |-> FALSE, message |-> "NONE", status |-> "NONE"]
\* history of a session: PersonCaptures created, whether a read of the capture
\* loop failed, best total score (-1: not scored), calls of api.identify and
\* the number of embeddings fused into the last one's argument (0: None was
\* passed, -1: no call), branch taken, visitor_result, and the reason the
\* worker reports for not sending the session
NoSession == [captures |-> 0, read_failed |-> FALSE, scored |-> FALSE,
              best_total |-> -1, identify_calls |-> 0, identify_arg |-> -1,
              outcome |-> "NONE", visitor_result |-> "NONE", reason |-> "NONE"]
\* what is remembered of a session that has ended: how it ended
EndedSession(se) ==
    [NoSession EXCEPT !.outcome = se.outcome, !.visitor_result = se.visitor_result]
Event(op) == [op |-> op, detect |-> FALSE, cooldown |-> FALSE,
              release |-> FALSE, reopen |-> FALSE, after |-> "NONE"]

\* ---------------------------------------------------------------------------
\* Scoring and selection
\* ---------------------------------------------------------------------------
\* compute_quality_score(frame): the QualityScore of the frame, or None
compute_quality_score(f) == f.score

\* the loop of score_frames_dual: (idx, hires, lowres, score) of every frame
\* that has a score, in the order of the frames
ScoreEach(frames) ==
    LET HasScore(e) == e.score # None
    IN SelectSeq([i \in 1..Len(frames) |->
                     [idx |-> i - 1, hires |-> frames[i].hires,
                      lowres |-> frames[i].lowres,
                      score |-> compute_quality_score(frames[i].lowres)]],
                 HasScore)

\* list.sort(key=total, reverse=True) is stable: an entry comes behind the
\* entries with a greater total and behind the earlier entries with its total
SortDesc(r) ==
    LET Rank(i) ==
            1 + Cardinality({j \in 1..Len(r) : r[j].score.total > r[i].score.total})
              + Cardinality({j \in 1..(i - 1) : r[j].score.total = r[i].score.total})
    IN [k \in 1..Len(r) |-> r[CHOOSE i \in 1..Len(r) : Rank(i) = k]]

\* score_frames_dual(frames): the scored entries, sorted by total, best first
score_frames_dual(frames) == SortDesc(ScoreEach(frames))

\* the all-zero QualityScore select_best_frame builds as a last resort
ZeroScore ==
    [total |-> 0, face_size |-> 0, sharpness |-> 0, brightness |-> 0,
     contrast |-> 0, frontality |-> 0, yaw |-> 0, pitch |-> 0,
     bbox |-> <<0, 0, 0, 0>>]

\* TrimFrames that slices whatever the skip values are
TrimFramesAlways(frames, skip_start, skip_end) ==
    SubSeq(frames, skip_start + 1, Len(frames) - skip_end)

\* frames[skip_start : total - skip_end] when skip_start + skip_end < total
TrimFrames(frames, skip_start, skip_end) ==
    LET total == Len(frames)
    IN IF skip_start + skip_end < total
       THEN SubSeq(frames, skip_start + 1,
                   IF skip_end > 0 THEN total - skip_end ELSE total)
       ELSE frames

\* FallbackScore that does not score the trigger frame
FallbackScoreZero(trigger_frame) == ZeroScore

\* the trigger-frame fallback of select_best_frame
FallbackScore(trigger_frame) ==
    LET score == compute_quality_score(trigger_frame.lowres)
    IN IF score = None THEN ZeroScore ELSE score

\* select_best_frame whose fallback hands the trigger frame on as a scored frame
select_best_frame_scoring_trigger(cap, skip_start, skip_end) ==
    LET scored == score_frames_dual(TrimFrames(cap.frames, skip_start, skip_end))
    IN IF scored = <<>>
       THEN [best_frame_hires |-> cap.trigger_frame.hires,
             best_frame_lowres |-> cap.trigger_frame.lowres,
             best_score |-> FallbackScore(cap.trigger_frame),
             scored_frames |-> <<[idx |-> 0, hires |-> cap.trigger_frame.hires,
                                  lowres |-> cap.trigger_frame.lowres,
                                  score |-> FallbackScore(cap.trigger_frame)]>>,
             fallback |-> TRUE]
       ELSE [best_frame_hires |-> scored[1].hires,
             best_frame_lowres |-> scored[1].lowres,
             best_score |-> scored[1].score,
             scored_frames |-> scored, fallback |-> FALSE]

\* select_best_frame(capture, skip_start, skip_end)
select_best_frame(cap, skip_start, skip_end) ==
    LET scored == score_frames_dual(TrimFrames(cap.frames, skip_start, skip_end))
    IN IF scored = <<>>
       THEN [best_frame_hires |-> cap.trigger_frame.hires,
             best_frame_lowres |-> cap.trigger_frame.lowres,
             best_score |-> FallbackScore(cap.trigger_frame),
             scored_frames |-> <<>>, fallback |-> TRUE]
       ELSE [best_frame_hires |-> scored[1].hires,
             best_frame_lowres |-> scored[1].lowres,
             best_score |-> scored[1].score,
             scored_frames |-> scored, fallback |-> FALSE]

\* ---------------------------------------------------------------------------
\* Fusion
\* ---------------------------------------------------------------------------
\* total ** weight_power, rounded down to an integer
SoftWeight(total) ==
    IF total <= 0 THEN 0
    ELSE CHOOSE k \in 1..7 :
            /\ k ^ WeightPowerDen <= total ^ WeightPowerNum
            /\ (k + 1) ^ WeightPowerDen > total ^ WeightPowerNum

\* Qualifies without the detection confidence gate
QualifiesAnyConfidence(e, min_q, min_det) ==
    /\ ~(e.score.total < min_q)
    /\ e.hires.x # 0

\* the frame passes the gates of the fusion loop
Qualifies(e, min_q, min_det) ==
    /\ ~(e.score.total < min_q)
    /\ e.hires.x # 0
    /\ ~(e.hires.x < min_det)

\* FusionLoop without the gates: the first top_n scored entries are accepted
FusionLoopNoGates(scored_frames, min_q, min_det, top_n) ==
    SubSeq(scored_frames, 1,
           IF top_n < 1 THEN Min(1, Len(scored_frames))
           ELSE Min(top_n, Len(scored_frames)))

\* the loop over scored_frames: the entries that pass the gates are accepted,
\* best first, and the loop is left behind the first accepted entry that
\* brings their number to top_n or more
FusionLoop(scored_frames, min_q, min_det, top_n) ==
    LET Passes(e) == Qualifies(e, min_q, min_det)
        valid == SelectSeq(scored_frames, Passes)
        stop == IF \E n \in 1..Len(valid) : n >= top_n
                THEN CHOOSE n \in 1..Len(valid) :
                        /\ n >= top_n
                        /\ \A m \in 1..(n - 1) : ~(m >= top_n)
                ELSE Len(valid)
    IN SubSeq(valid, 1, stop)

RECURSIVE SumWeights(_)
SumWeights(weights) ==
    IF weights = <<>> THEN 0 ELSE Head(weights) + SumWeights(Tail(weights))

\* NormalizeWeights dividing by the largest weight instead of the sum
NormalizeWeightsByMax(weights) ==
    [i \in 1..Len(weights) |-> <<weights[i], weights[1]>>]

\* weights / weights.sum(): each weight as the fraction <<numerator, denominator>>
NormalizeWeights(weights) ==
    [i \in 1..Len(weights) |-> <<weights[i], SumWeights(weights)>>]

\* FirstValidBbox that takes the bbox of the best scored entry
FirstValidBboxOfBest(scored_frames, accepted) == scored_frames[1].score.bbox

\* best_frame_bbox = score.bbox of the first accepted entry, the entry
\* best_frame_lowres is taken from
FirstValidBbox(scored_frames, accepted) == accepted[1].score.bbox

\* the entries extract_embeddings is called on, in the order of the calls:
\* the entries that are not under the quality gate, up to the entry the loop
\* is left behind
ExtractorCalls(scored_frames, min_q, min_det, top_n) ==
    LET AboveGate(e) == ~(e.score.total < min_q)
        Passes(e) == Qualifies(e, min_q, min_det)
        candidates == SelectSeq(scored_frames, AboveGate)
        accepted == FusionLoop(scored_frames, min_q, min_det, top_n)
        breaks == { p \in 1..Len(candidates) :
                        /\ Passes(candidates[p])
                        /\ Len(SelectSeq(SubSeq(candidates, 1, p), Passes)) = Len(accepted) }
        last == IF accepted # <<>> /\ Len(accepted) >= top_n /\ breaks # {}
                THEN CHOOSE p \in breaks : TRUE
                ELSE Len(candidates)
    IN SubSeq(candidates, 1, last)

\* compute_fused_embedding that gives up at the first entry above the quality
\* gate in which the extractor finds no face
compute_fused_embedding_aborting(scored_frames, min_q, min_det, top_n) ==
    LET NoFace(e) == ~(e.score.total < min_q) /\ e.hires.x = 0
        upto == IF \E p \in 1..Len(scored_frames) : NoFace(scored_frames[p])
                THEN (CHOOSE p \in 1..Len(scored_frames) :
                         /\ NoFace(scored_frames[p])
                         /\ \A q \in 1..(p - 1) : ~NoFace(scored_frames[q])) - 1
                ELSE Len(scored_frames)
        accepted == FusionLoop(SubSeq(scored_frames, 1, upto), min_q, min_det, top_n)
        weights == NormalizeWeights(
                      [i \in 1..Len(accepted) |-> SoftWeight(accepted[i].score.total)])
    IN IF accepted = <<>>
       THEN [ran |-> TRUE, fused_embedding |-> None, fusion_details |-> <<>>,
             api_frame |-> None, api_bbox |-> None,
             extracted |-> ExtractorCalls(scored_frames, min_q, min_det, top_n)]
       ELSE [ran |-> TRUE,
             fused_embedding |->
                 [terms |-> [i \in 1..Len(accepted) |->
                                [emb |-> accepted[i].hires, w |-> weights[i]]]],
             fusion_details |->
                 [i \in 1..Len(accepted) |->
                     <<accepted[i].score.total, accepted[i].hires.x, weights[i]>>],
             api_frame |-> accepted[1].lowres,
             api_bbox |-> FirstValidBbox(scored_frames, accepted),
             extracted |-> ExtractorCalls(scored_frames, min_q, min_det, top_n)]

\* compute_fused_embedding(scored_frames, min_quality_score,
\*                         min_detection_score, top_n)
\* The fused embedding is kept as the weighted sum it is computed from: the
\* frames whose embeddings are added, each with its weight.
compute_fused_embedding(scored_frames, min_q, min_det, top_n) ==
    LET accepted == FusionLoop(scored_frames, min_q, min_det, top_n)
        weights == NormalizeWeights(
                      [i \in 1..Len(accepted) |-> SoftWeight(accepted[i].score.total)])
    IN IF accepted = <<>>
       THEN [ran |-> TRUE, fused_embedding |-> None, fusion_details |-> <<>>,
             api_frame |-> None, api_bbox |-> None,
             extracted |-> ExtractorCalls(scored_frames, min_q, min_det, top_n)]
       ELSE [ran |-> TRUE,
             fused_embedding |->
                 [terms |-> [i \in 1..Len(accepted) |->
                                [emb |-> accepted[i].hires, w |-> weights[i]]]],
             fusion_details |->
                 [i \in 1..Len(accepted) |->
                     <<accepted[i].score.total, accepted[i].hires.x, weights[i]>>],
             api_frame |-> accepted[1].lowres,
             api_bbox |-> FirstValidBbox(scored_frames, accepted),
             extracted |-> ExtractorCalls(scored_frames, min_q, min_det, top_n)]

\* the embedding extract_embeddings computes from a frame with a face: a vector
\* of two components, of a different direction for every such frame of the model
Embedding(f) == <<f.score.total \div 100, (f.x \div 10) + 1>>

RECURSIVE SumTerms(_, _, _)
SumTerms(terms, c, i) ==
    IF i > Len(terms) THEN 0
    ELSE terms[i].w[1] * Embedding(terms[i].emb)[c] + SumTerms(terms, c, i + 1)

\* fused += emb * w over the accepted frames; the weights have one denominator,
\* which the normalisation of the sum cancels, so the sum is taken over their
\* numerators
WeightedSum(terms) == <<SumTerms(terms, 1, 1), SumTerms(terms, 2, 1)>>

\* u / norm(u) = v / norm(v): u and v point in the same direction
SameUnitVector(u, v) ==
    /\ u[1] * v[2] = u[2] * v[1]
    /\ u[1] * v[1] + u[2] * v[2] > 0

\* ---------------------------------------------------------------------------
\* The worker: run_visitor_counter
\* ---------------------------------------------------------------------------
Init ==
    /\ pc = "start"
    /\ cfgv \in [top_n : 0..MaxTopN, skip_start : 0..MaxSkip, skip_end : 0..MaxSkip]
    /\ cap_opened = FALSE
    /\ frame_count = 0
    /\ elapsed = cooldown_seconds          \* last_capture_time = 0
    /\ capture = NoCapture
    /\ selection = NoSelection
    /\ fusion = NoFusion
    /\ api_response = NoResponse
    /\ fail_streak = 0
    /\ sess = NoSession
    /\ ev = Event("none")
    /\ workers = <<>>
    /\ quality = None
    /\ manager = None

\* the API is not reachable, the camera cannot be opened or the first read
\* fails: the worker returns before the loop
StartupFail ==
    /\ pc = "start"
    /\ pc' = "terminated"
    /\ ev' = Event("startup_fail")
    /\ UNCHANGED <<cfgv, cap_opened, frame_count, elapsed, capture, selection,
                   fusion, api_response, fail_streak, sess>>
    /\ UNCHANGED <<workers, quality, manager>>

StartupOk ==
    /\ pc = "start"
    /\ pc' = "scan"
    /\ cap_opened' = TRUE
    /\ ev' = Event("startup")
    /\ UNCHANGED <<cfgv, frame_count, elapsed, capture, selection, fusion,
                   api_response, fail_streak, sess>>
    /\ UNCHANGED <<workers, quality, manager>>

\* InCooldown without the cooldown check
InCooldownNever(el) == FALSE

\* current_time - last_capture_time < cooldown_seconds
InCooldown(el) == el < cooldown_seconds

\* frame_count % process_every_n != 0
SkippedFrame(count) == count % process_every_n # 0

\* confident_faces = [f for f in faces if f[14] >= min_confidence]
ConfidentFaces(faces, min_confidence) ==
    LET Confident(face) == face.score >= min_confidence
    IN SelectSeq(faces, Confident)

\* max(confident_faces, key=area): the first face of the largest area
LargestFace(faces) ==
    faces[CHOOSE i \in 1..Len(faces) :
             /\ \A j \in 1..Len(faces) : faces[j].area <= faces[i].area
             /\ \A j \in 1..(i - 1) : faces[j].area < faces[i].area]

\* the face detect_face returns for the frame, or None
DetectedFace(f) ==
    IF ConfidentFaces(f.yunet, MIN_DET_CONF) = <<>> THEN None
    ELSE LargestFace(ConfidentFaces(f.yunet, MIN_DET_CONF))

\* detect_face that takes any face YuNet reports
detect_face_unfiltered(f) == f.yunet # <<>>

\* detect_face(frame_resized, min_confidence=cfg.MIN_DET_CONF) is not None
detect_face(f) == DetectedFace(f) # None

\* ReadFail that gives up: the loop is left after a failed read
ReadFailGiveUp ==
    /\ pc = "scan"
    /\ pc' = "terminated"
    /\ cap_opened' = FALSE
    /\ fail_streak' = Min(fail_streak + 1, MaxFailStreak)
    /\ ev' = [Event("read_fail") EXCEPT !.release = TRUE]
    /\ UNCHANGED <<cfgv, frame_count, elapsed, capture, selection, fusion,
                   api_response, sess>>
    /\ UNCHANGED <<workers, quality, manager>>

\* cap.read() fails in the main loop: release, sleep, reopen, continue
ReadFail ==
    /\ pc = "scan"
    /\ pc' = "scan"
    /\ cap_opened' \in BOOLEAN
    /\ fail_streak' = Min(fail_streak + 1, MaxFailStreak)
    /\ ev' = [Event("read_fail") EXCEPT !.release = TRUE, !.reopen = TRUE]
    /\ UNCHANGED <<cfgv, frame_count, elapsed, capture, selection, fusion,
                   api_response, sess>>
    /\ UNCHANGED <<workers, quality, manager>>

\* cap.read() gives frame f in the main loop: frame skipping, cooldown check,
\* fast detection
ReadFrame(f) ==
    /\ pc = "scan"
    /\ cap_opened
    /\ fail_streak' = 0
    /\ frame_count' = (frame_count + 1) % process_every_n
    /\ LET read == [Event("skip") EXCEPT !.cooldown = (elapsed < cooldown_seconds)]
       IN IF SkippedFrame(frame_count')
          THEN /\ ev' = read
               /\ UNCHANGED <<pc, capture, selection, fusion, api_response, sess>>
          ELSE IF InCooldown(elapsed)
          THEN /\ ev' = [read EXCEPT !.op = "cooldown_drop"]
               /\ UNCHANGED <<pc, capture, selection, fusion, api_response, sess>>
          ELSE IF ~detect_face(f)
          THEN /\ ev' = [read EXCEPT !.op = "no_face", !.detect = TRUE]
               /\ UNCHANGED <<pc, capture, selection, fusion, api_response, sess>>
          ELSE /\ ev' = [read EXCEPT !.op = "detected", !.detect = TRUE,
                                      !.after = sess.visitor_result]
               /\ pc' = "DETECTED"
               /\ capture' = [NoCapture EXCEPT !.trigger_frame = FramePair(f)]
               /\ selection' = NoSelection
               /\ fusion' = NoFusion
               /\ api_response' = NoResponse
               /\ sess' = NoSession
    /\ UNCHANGED <<cfgv, cap_opened, elapsed>>
    /\ UNCHANGED <<workers, quality, manager>>

\* StartCapture with a PersonCapture that starts without frames
StartCaptureEmpty ==
    /\ pc = "DETECTED"
    /\ pc' = "CAPTURING"
    /\ capture' = [capture EXCEPT !.frames = <<>>,
                                  !.frame_count = 0, !.elapsed = 0]
    /\ sess' = [sess EXCEPT !.captures = @ + 1]
    /\ ev' = Event("start_capture")
    /\ UNCHANGED <<cfgv, cap_opened, frame_count, elapsed, selection, fusion,
                   api_response, fail_streak>>
    /\ UNCHANGED <<workers, quality, manager>>

\* capture_frames_for_person up to its loop: the PersonCapture starts with the
\* trigger frame
StartCapture ==
    /\ pc = "DETECTED"
    /\ pc' = "CAPTURING"
    /\ capture' = [capture EXCEPT !.frames = <<capture.trigger_frame>>,
                                  !.frame_count = 0, !.elapsed = 0]
    /\ sess' = [sess EXCEPT !.captures = @ + 1]
    /\ ev' = Event("start_capture")
    /\ UNCHANGED <<cfgv, cap_opened, frame_count, elapsed, selection, fusion,
                   api_response, fail_streak>>
    /\ UNCHANGED <<workers, quality, manager>>

\* CaptureRead that offers the frame to the fast detector and starts a capture
\* of its own on a detection
CaptureReadDetecting(f) ==
    /\ pc = "CAPTURING"
    /\ ~capture.stopped
    /\ capture.elapsed < capture_duration
    /\ capture.frame_count < MaxCaptureReads
    /\ capture' = [capture EXCEPT
                     !.frame_count = @ + 1,
                     !.frames = IF (capture.frame_count + 1) % frame_skip = 0
                                THEN Append(@, FramePair(f)) ELSE @]
    /\ sess' = [sess EXCEPT !.captures = IF detect_face(f) THEN Min(@ + 1, 2) ELSE @]
    /\ ev' = [Event("capture_read") EXCEPT !.detect = TRUE]
    /\ UNCHANGED <<pc, cfgv, cap_opened, frame_count, elapsed, selection,
                   fusion, api_response, fail_streak>>
    /\ UNCHANGED <<workers, quality, manager>>

\* one iteration of the capture loop with a successful read
CaptureRead(f) ==
    /\ pc = "CAPTURING"
    /\ ~capture.stopped
    /\ capture.elapsed < capture_duration
    /\ capture.frame_count < MaxCaptureReads
    /\ capture' = [capture EXCEPT
                     !.frame_count = @ + 1,
                     !.frames = IF (capture.frame_count + 1) % frame_skip = 0
                                THEN Append(@, FramePair(f)) ELSE @]
    /\ ev' = Event("capture_read")
    /\ UNCHANGED <<pc, cfgv, cap_opened, frame_count, elapsed, selection,
                   fusion, api_response, fail_streak, sess>>
    /\ UNCHANGED <<workers, quality, manager>>

\* the read of the capture loop fails: break
CaptureReadFail ==
    /\ pc = "CAPTURING"
    /\ ~capture.stopped
    /\ capture.elapsed < capture_duration
    /\ capture' = [capture EXCEPT !.stopped = TRUE]
    /\ sess' = [sess EXCEPT !.read_failed = TRUE]
    /\ ev' = Event("capture_read_fail")
    /\ UNCHANGED <<pc, cfgv, cap_opened, frame_count, elapsed, selection,
                   fusion, api_response, fail_streak>>
    /\ UNCHANGED <<workers, quality, manager>>

\* SelectBest that trims the frames of the PersonCapture itself
SelectBestInPlace ==
    /\ pc = "CAPTURING"
    /\ capture.stopped \/ ~(capture.elapsed < capture_duration)
    /\ pc' = "SCORED"
    /\ \E sel \in {select_best_frame(capture, cfgv.skip_start, cfgv.skip_end)} :
          /\ selection' = sel
          /\ sess' = [sess EXCEPT !.scored = TRUE,
                                  !.best_total = sel.best_score.total]
    /\ capture' = [capture EXCEPT
                     !.frames = TrimFrames(@, cfgv.skip_start, cfgv.skip_end),
                     !.frame_count = 0, !.elapsed = 0, !.stopped = FALSE]
    /\ ev' = Event("select_best")
    /\ UNCHANGED <<cfgv, cap_opened, frame_count, elapsed, fusion,
                   api_response, fail_streak>>
    /\ UNCHANGED <<workers, quality, manager>>

\* the capture loop is left, the PersonCapture is returned and scored; the
\* locals of capture_frames_for_person (frame_count, start_time, the break)
\* end with the call
SelectBest ==
    /\ pc = "CAPTURING"
    /\ capture.stopped \/ ~(capture.elapsed < capture_duration)
    /\ pc' = "SCORED"
    /\ \E sel \in {select_best_frame(capture, cfgv.skip_start, cfgv.skip_end)} :
          /\ selection' = sel
          /\ sess' = [sess EXCEPT !.scored = TRUE,
                                  !.best_total = sel.best_score.total]
    /\ capture' = [capture EXCEPT !.frame_count = 0, !.elapsed = 0,
                                  !.stopped = FALSE]
    /\ ev' = Event("select_best")
    /\ UNCHANGED <<cfgv, cap_opened, frame_count, elapsed, fusion,
                   api_response, fail_streak>>
    /\ UNCHANGED <<workers, quality, manager>>

\* BelowQualityGate without the quality gate
BelowQualityGateNever(score) == FALSE

\* best_score.total < min_quality_score
BelowQualityGate(score) == score.total < min_quality_score

\* what the quality gate reports: the warning and visitor_result="LOW_QUALITY"
GateReason(score) == IF BelowQualityGate(score) THEN "LOW_QUALITY" ELSE "NONE"

QualityGate ==
    /\ pc = "SCORED"
    /\ IF BelowQualityGate(selection.best_score)
       THEN /\ pc' = "GATED_OUT"
            /\ sess' = [sess EXCEPT !.outcome = "GATED_OUT",
                                    !.reason = GateReason(selection.best_score)]
       ELSE /\ pc' = "FUSING"
            /\ sess' = sess
    /\ ev' = Event("quality_gate")
    /\ UNCHANGED <<cfgv, cap_opened, frame_count, elapsed, capture, selection,
                   fusion, api_response, fail_streak>>
    /\ UNCHANGED <<workers, quality, manager>>

\* FusionFailed without the check for a missing embedding
FusionFailedNever(fu) == FALSE

\* fused_embedding is None
FusionFailed(fu) == fu.fused_embedding = None

\* what is reported when fusion returns no embedding: the warning and
\* visitor_result="NO_VALID_FRAMES"
FusionReason(fu) == IF FusionFailed(fu) THEN "NO_VALID_FRAMES" ELSE "NONE"

Fuse ==
    /\ pc = "FUSING"
    /\ ~fusion.ran
    /\ \E fu \in {compute_fused_embedding(selection.scored_frames, min_quality_score,
                                          min_detection_score, cfgv.top_n)} :
          /\ fusion' = fu
          /\ IF FusionFailed(fu)
             THEN /\ pc' = "REJECTED"
                  /\ sess' = [sess EXCEPT !.outcome = "REJECTED",
                                          !.reason = FusionReason(fu)]
             ELSE /\ pc' = "FUSING"
                  /\ sess' = sess
    /\ ev' = Event("fuse")
    /\ UNCHANGED <<cfgv, cap_opened, frame_count, elapsed, capture, selection,
                   api_response, fail_streak>>
    /\ UNCHANGED <<workers, quality, manager>>

\* what can happen to the request of ClientBridgeAPI.identify
IdentifyOutcomes == {"new", "returning", "success_false", "timeout",
                     "connection_error", "exception"}

\* ClientBridgeAPI.identify: every exception becomes APIResponse(success=False)
identify(outcome) ==
    IF outcome \in {"new", "returning"}
    THEN [success |-> TRUE, message |-> "", status |-> outcome]
    ELSE IF outcome = "success_false"
    THEN [success |-> FALSE, message |-> "", status |-> "NONE"]
    ELSE [success |-> FALSE, message |-> outcome, status |-> "NONE"]

\* visitor_result of the session
VisitorResult(resp) ==
    IF resp.success
    THEN IF resp.status = "returning" THEN "RETURNING" ELSE "NEW"
    ELSE "ERROR"

\* Identify whose request is made outside the try block: an exception of the
\* request ends the worker
IdentifyUncaught(outcome) ==
    /\ pc = "FUSING"
    /\ fusion.ran
    /\ api_response' = identify(outcome)
    /\ pc' = IF outcome = "exception" THEN "terminated" ELSE "SENT"
    /\ sess' = [sess EXCEPT !.identify_calls = @ + 1,
                            !.identify_arg =
                                IF fusion.fused_embedding = None THEN 0
                                ELSE Len(fusion.fused_embedding.terms),
                            !.outcome = "SENT",
                            !.visitor_result = VisitorResult(identify(outcome))]
    /\ ev' = Event("identify")
    /\ UNCHANGED <<cfgv, cap_opened, frame_count, elapsed, capture, selection,
                   fusion, fail_streak>>
    /\ UNCHANGED <<workers, quality, manager>>

Identify(outcome) ==
    /\ pc = "FUSING"
    /\ fusion.ran
    /\ api_response' = identify(outcome)
    /\ pc' = "SENT"
    /\ sess' = [sess EXCEPT !.identify_calls = @ + 1,
                            !.identify_arg =
                                IF fusion.fused_embedding = None THEN 0
                                ELSE Len(fusion.fused_embedding.terms),
                            !.outcome = "SENT",
                            !.visitor_result = VisitorResult(identify(outcome))]
    /\ ev' = Event("identify")
    /\ UNCHANGED <<cfgv, cap_opened, frame_count, elapsed, capture, selection,
                   fusion, fail_streak>>
    /\ UNCHANGED <<workers, quality, manager>>

\* EndSession that does not update last_capture_time
EndSessionNoCooldown ==
    /\ pc \in {"GATED_OUT", "REJECTED", "SENT"}
    /\ pc' = "scan"
    /\ capture' = NoCapture
    /\ selection' = NoSelection
    /\ fusion' = NoFusion
    /\ api_response' = NoResponse
    /\ sess' = EndedSession(sess)
    /\ ev' = Event("end_session")
    /\ UNCHANGED <<cfgv, cap_opened, frame_count, elapsed, fail_streak>>
    /\ UNCHANGED <<workers, quality, manager>>

\* last_capture_time = time.time(), and back to the top of the loop: the
\* session's PersonCapture, scores and fusion result are dropped
EndSession ==
    /\ pc \in {"GATED_OUT", "REJECTED", "SENT"}
    /\ pc' = "scan"
    /\ elapsed' = 0
    /\ capture' = NoCapture
    /\ selection' = NoSelection
    /\ fusion' = NoFusion
    /\ api_response' = NoResponse
    /\ sess' = EndedSession(sess)
    /\ ev' = Event("end_session")
    /\ UNCHANGED <<cfgv, cap_opened, frame_count, fail_streak>>
    /\ UNCHANGED <<workers, quality, manager>>

\* five seconds pass
Tick ==
    /\ pc \notin {"start", "terminated"}
    /\ \/ elapsed < cooldown_seconds
       \/ pc = "CAPTURING" /\ capture.elapsed < capture_duration
    /\ elapsed' = Min(elapsed + 1, cooldown_seconds)
    /\ capture' = IF pc = "CAPTURING"
                  THEN [capture EXCEPT !.elapsed = Min(@ + 1, capture_duration)]
                  ELSE capture
    /\ ev' = Event("tick")
    /\ UNCHANGED <<pc, cfgv, cap_opened, frame_count, selection, fusion,
                   api_response, fail_streak, sess>>
    /\ UNCHANGED <<workers, quality, manager>>

Next ==
    \/ StartupFail
    \/ StartupOk
    \/ ReadFail
    \/ \E f \in Frames : ReadFrame(f)
    \/ StartCapture
    \/ \E f \in Frames : CaptureRead(f)
    \/ CaptureReadFail
    \/ SelectBest
    \/ QualityGate
    \/ Fuse
    \/ \E outcome \in IdentifyOutcomes : Identify(outcome)
    \/ EndSession
    \/ Tick

Spec == Init /\ [][Next]_vars

\* the configuration the signatures of select_best_frame and
\* compute_fused_embedding default to
InitDefault ==
    /\ Init
    /\ cfgv = [top_n |-> 3, skip_start |-> 0, skip_end |-> 0]

\* the steps of a session that need no frame from the source
SessionStep ==
    \/ StartCapture
    \/ SelectBest
    \/ QualityGate
    \/ Fuse
    \/ \E outcome \in IdentifyOutcomes : Identify(outcome)
    \/ EndSession

\* the worker goes on with a session whenever it can, and time passes
FairSpec ==
    /\ InitDefault
    /\ [][Next]_vars
    /\ WF_vars(SessionStep)
    /\ WF_vars(Tick)

\* the state of the session state machine
phase ==
    IF pc = "scan"
    THEN IF elapsed < cooldown_seconds THEN "COOLDOWN" ELSE "IDLE"
    ELSE pc

TypeOK ==
    /\ pc \in {"start", "terminated", "scan", "DETECTED", "CAPTURING", "SCORED",
               "GATED_OUT", "FUSING", "REJECTED", "SENT"}
    /\ frame_count \in 0..(process_every_n - 1)
    /\ elapsed \in 0..cooldown_seconds
    /\ fail_streak \in 0..MaxFailStreak
    /\ cap_opened \in BOOLEAN

\* ---------------------------------------------------------------------------
\* One worker process per camera: WorkerManager
\* ---------------------------------------------------------------------------
\* Each process runs run_visitor_counter with locals of its own.  Of a worker
\* the part that decides on detection, capture and cooldown is kept: its
\* position, frame_count (modulo process_every_n), the time since its
\* last_capture_time (saturated) and the reads of its capture loop.  The
\* session is run from the end of the capture loop to its terminal branch in
\* one step.
Cameras == 1..NumCameras

\* a camera no process has been started for
NotStarted == [pc |-> "not_started", frame_count |-> 0,
               elapsed |-> cooldown_seconds, reads |-> 0]

\* run_visitor_counter before its loop: frame_count = 0, last_capture_time = 0
NewWorker == [NotStarted EXCEPT !.pc = "scan"]

\* one iteration of the main loop on a frame (with a face or without)
WorkerRead(w, face) ==
    LET count == (w.frame_count + 1) % process_every_n
    IN IF SkippedFrame(count) \/ InCooldown(w.elapsed) \/ ~face
       THEN [w EXCEPT !.frame_count = count]
       ELSE [w EXCEPT !.frame_count = count, !.pc = "CAPTURING", !.reads = 0]

\* one read of the capture loop
WorkerCaptureRead(w) == [w EXCEPT !.reads = @ + 1]

\* the capture loop ends; the session runs to its terminal branch, which sets
\* last_capture_time
WorkerFinish(w) == [w EXCEPT !.pc = "scan", !.elapsed = 0, !.reads = 0]

\* five seconds pass on the clock the worker reads
WorkerTick(w) == [w EXCEPT !.elapsed = Min(@ + 1, cooldown_seconds)]

CameraInit ==
    /\ pc = "start"
    /\ cfgv = [top_n |-> 3, skip_start |-> 0, skip_end |-> 0]
    /\ cap_opened = FALSE
    /\ frame_count = 0
    /\ elapsed = cooldown_seconds
    /\ capture = NoCapture
    /\ selection = NoSelection
    /\ fusion = NoFusion
    /\ api_response = NoResponse
    /\ fail_streak = 0
    /\ sess = NoSession
    /\ ev = [op |-> "none", camera |-> 0]
    /\ workers = [c \in Cameras |-> NotStarted]
    /\ quality = None
    /\ manager = None

\* WorkerManager.start_worker(camera): a process of its own, unless the camera
\* has one
start_worker(c) ==
    /\ workers[c].pc = "not_started"
    /\ workers' = [workers EXCEPT ![c] = NewWorker]
    /\ ev' = [op |-> "start_worker", camera |-> c]
    /\ UNCHANGED <<pc, cfgv, cap_opened, frame_count, elapsed, capture, selection,
                   fusion, api_response, fail_streak, sess, quality, manager>>

CameraRead(c, face) ==
    /\ workers[c].pc = "scan"
    /\ workers' = [workers EXCEPT ![c] = WorkerRead(@, face)]
    /\ ev' = [op |-> IF workers'[c].pc = "CAPTURING" THEN "detected" ELSE "read",
              camera |-> c]
    /\ UNCHANGED <<pc, cfgv, cap_opened, frame_count, elapsed, capture, selection,
                   fusion, api_response, fail_streak, sess, quality, manager>>

CameraCaptureRead(c) ==
    /\ workers[c].pc = "CAPTURING"
    /\ workers[c].reads < MaxCaptureReads
    /\ workers' = [workers EXCEPT ![c] = WorkerCaptureRead(@)]
    /\ ev' = [op |-> "capture_read", camera |-> c]
    /\ UNCHANGED <<pc, cfgv, cap_opened, frame_count, elapsed, capture, selection,
                   fusion, api_response, fail_streak, sess, quality, manager>>

\* CameraFinish with one last_capture_time for all workers
CameraFinishSharedTimer(c) ==
    /\ workers[c].pc = "CAPTURING"
    /\ workers' = [d \in Cameras |->
                      IF d = c THEN WorkerFinish(workers[d])
                      ELSE [workers[d] EXCEPT !.elapsed = 0]]
    /\ ev' = [op |-> "finish", camera |-> c]
    /\ UNCHANGED <<pc, cfgv, cap_opened, frame_count, elapsed, capture, selection,
                   fusion, api_response, fail_streak, sess, quality, manager>>

CameraFinish(c) ==
    /\ workers[c].pc = "CAPTURING"
    /\ workers' = [workers EXCEPT ![c] = WorkerFinish(@)]
    /\ ev' = [op |-> "finish", camera |-> c]
    /\ UNCHANGED <<pc, cfgv, cap_opened, frame_count, elapsed, capture, selection,
                   fusion, api_response, fail_streak, sess, quality, manager>>

\* five seconds pass: every process reads the same clock
ClockTick ==
    /\ \E c \in Cameras : workers[c].elapsed < cooldown_seconds
    /\ workers' = [c \in Cameras |-> WorkerTick(workers[c])]
    /\ ev' = [op |-> "tick", camera |-> 0]
    /\ UNCHANGED <<pc, cfgv, cap_opened, frame_count, elapsed, capture, selection,
                   fusion, api_response, fail_streak, sess, quality, manager>>

CameraNext ==
    \/ \E c \in Cameras : start_worker(c)
    \/ \E c \in Cameras, face \in BOOLEAN : CameraRead(c, face)
    \/ \E c \in Cameras : CameraCaptureRead(c)
    \/ \E c \in Cameras : CameraFinish(c)
    \/ ClockTick

CameraSpec == CameraInit /\ [][CameraNext]_vars

\* ---------------------------------------------------------------------------
\* Quality metrics: frame_quality.py
\* ---------------------------------------------------------------------------
\* The sub-scores are fractions <<numerator, denominator>> with a positive
\* denominator.
RECURSIVE GCD(_, _)
GCD(a, b) == IF b = 0 THEN a ELSE GCD(b, a % b)

Reduce(r) ==
    LET g == GCD(IF r[1] < 0 THEN -r[1] ELSE r[1], r[2])
    IN <<r[1] \div g, r[2] \div g>>

RatAdd(a, b) == Reduce(<<a[1] * b[2] + b[1] * a[2], a[2] * b[2]>>)
RatMul(a, b) == Reduce(<<a[1] * b[1], a[2] * b[2]>>)
RatLess(a, b) == a[1] * b[2] < b[1] * a[2]
Abs(x) == IF x < 0 THEN -x ELSE x

\* cfg.QUALITY_THRESHOLDS
Thresholds ==
    [face_size |-> [zero_px |-> 60, critical_px |-> 100],
     sharpness |-> [critical |-> 50, good |-> 300],
     brightness |-> [critical_low |-> 30, good_low |-> 80,
                     good_high |-> 180, critical_high |-> 230],
     contrast |-> [critical |-> 15, good |-> 50],
     frontality |-> [critical_yaw |-> 10, good_yaw |-> 3,
                     critical_pitch |-> 8, good_pitch |-> 2]]

\* score_face_size, of face_width = x2 - x1
score_face_size(face_width) ==
    LET ZERO_PX == Thresholds.face_size.zero_px
        CRITICAL_PX == Thresholds.face_size.critical_px
    IN IF face_width >= CRITICAL_PX THEN <<1, 1>>
       ELSE IF face_width <= ZERO_PX THEN <<0, 1>>
       ELSE LET ratio == Reduce(<<face_width - ZERO_PX, CRITICAL_PX - ZERO_PX>>)
            IN RatMul(ratio, ratio)

\* 0.3 below the critical value falling off quadratically, 0.3 to 1.0 linearly
\* between critical and good, 1.0 from good on: the curve of score_sharpness
\* and score_contrast
CriticalGoodCurve(value, CRITICAL, GOOD) ==
    IF value >= GOOD THEN <<1, 1>>
    ELSE IF value >= CRITICAL
    THEN RatAdd(<<3, 10>>,
                RatMul(<<7, 10>>, Reduce(<<value - CRITICAL, GOOD - CRITICAL>>)))
    ELSE LET ratio == Reduce(<<value, CRITICAL>>)
         IN RatMul(<<3, 10>>, RatMul(ratio, ratio))

\* score_sharpness that goes on with the linear piece above the good value
score_sharpness_uncapped(variance) ==
    RatAdd(<<3, 10>>,
           RatMul(<<7, 10>>,
                  Reduce(<<variance - Thresholds.sharpness.critical,
                           Thresholds.sharpness.good - Thresholds.sharpness.critical>>)))

\* score_sharpness, of the variance of the Laplacian
score_sharpness(variance) ==
    CriticalGoodCurve(variance, Thresholds.sharpness.critical, Thresholds.sharpness.good)

\* score_brightness, of the mean intensity
score_brightness(mean_brightness) ==
    LET CRITICAL_LOW == Thresholds.brightness.critical_low
        GOOD_LOW == Thresholds.brightness.good_low
        GOOD_HIGH == Thresholds.brightness.good_high
        CRITICAL_HIGH == Thresholds.brightness.critical_high
    IN IF GOOD_LOW <= mean_brightness /\ mean_brightness <= GOOD_HIGH THEN <<1, 1>>
       ELSE IF mean_brightness < GOOD_LOW
       THEN IF mean_brightness >= CRITICAL_LOW
            THEN RatAdd(<<4, 10>>,
                        RatMul(<<6, 10>>, Reduce(<<mean_brightness - CRITICAL_LOW,
                                                   GOOD_LOW - CRITICAL_LOW>>)))
            ELSE LET ratio == Reduce(<<mean_brightness, CRITICAL_LOW>>)
                 IN RatMul(<<4, 10>>, RatMul(ratio, ratio))
       ELSE IF mean_brightness <= CRITICAL_HIGH
            THEN RatAdd(<<4, 10>>,
                        RatMul(<<6, 10>>, Reduce(<<CRITICAL_HIGH - mean_brightness,
                                                   CRITICAL_HIGH - GOOD_HIGH>>)))
            ELSE LET rest == Reduce(<<(255 - CRITICAL_HIGH) - (mean_brightness - CRITICAL_HIGH),
                                      255 - CRITICAL_HIGH>>)
                 IN RatMul(<<4, 10>>, RatMul(rest, rest))

\* score_contrast, of the standard deviation
score_contrast(std_dev) ==
    CriticalGoodCurve(std_dev, Thresholds.contrast.critical, Thresholds.contrast.good)

\* the yaw and the pitch component of score_frontality, of an absolute angle
AngleScore(angle, GOOD, CRITICAL) ==
    IF angle <= GOOD THEN <<1, 1>>
    ELSE IF angle <= CRITICAL
    THEN RatAdd(<<3, 10>>,
                RatMul(<<7, 10>>, Reduce(<<CRITICAL - angle, CRITICAL - GOOD>>)))
    ELSE LET rest == Reduce(<<(90 - CRITICAL) - Min(angle - CRITICAL, 90 - CRITICAL),
                              90 - CRITICAL>>)
         IN RatMul(<<3, 10>>, RatMul(rest, rest))

\* score_frontality(yaw, pitch) = 0.6 * yaw_score + 0.4 * pitch_score
score_frontality(yaw, pitch) ==
    LET yaw_score == AngleScore(Abs(yaw), Thresholds.frontality.good_yaw,
                                Thresholds.frontality.critical_yaw)
        pitch_score == AngleScore(Abs(pitch), Thresholds.frontality.good_pitch,
                                  Thresholds.frontality.critical_pitch)
    IN RatAdd(RatMul(<<6, 10>>, yaw_score), RatMul(<<4, 10>>, pitch_score))

\* The penalty chain works on sub-scores that are powers of ten.  A sub-score
\* 10 ^ (-d) is kept as its number of decades d, the sub-score 0 as ZeroFactor
\* (more decades than any other), and a score 10 ^ (t / 5) as its number of
\* fifths of a decade t, so that score * factor ^ (importance / 5) is exact:
\* 10 ^ (t / 5) * 10 ^ (-d * importance / 5) = 10 ^ ((t - importance * d) / 5).
ZeroFactor == 99
Decades == (-1..MaxDecade) \cup {ZeroFactor}

\* cfg.QUALITY_BASE_SCORE = 1000 = 10 ^ (15 / 5)
base_score == 15

\* ClampFactor that leaves the factor as it is
ClampFactorNone(d) == d

\* max(0.001, min(1.0, factor_value))
ClampFactor(d) == IF d < 0 THEN 0 ELSE IF d > 3 THEN 3 ELSE d

\* apply_penalty that rewards a low sub-score
apply_penalty_inverted(score, factor_value, importance) ==
    IF importance = 0 THEN score
    ELSE score + importance * ClampFactor(factor_value)

\* apply_penalty(score, factor_value, importance)
apply_penalty(score, factor_value, importance) ==
    IF importance = 0 THEN score
    ELSE score - importance * ClampFactor(factor_value)

Criteria == {"frontality", "sharpness", "face_size", "brightness", "contrast"}

\* the five apply_penalty calls of compute_quality_score
PenalizedTotal(sub, importance) ==
    LET t1 == apply_penalty(base_score, sub.frontality, importance.frontality)
        t2 == apply_penalty(t1, sub.sharpness, importance.sharpness)
        t3 == apply_penalty(t2, sub.face_size, importance.face_size)
        t4 == apply_penalty(t3, sub.brightness, importance.brightness)
    IN apply_penalty(t4, sub.contrast, importance.contrast)

\* cfg.QUALITY_IMPORTANCE, the importance compute_quality_score falls back to
\* without a config, and two more
Importances ==
    { [frontality |-> 8, sharpness |-> 0, face_size |-> 5, brightness |-> 0, contrast |-> 0],
      [frontality |-> 8, sharpness |-> 6, face_size |-> 5, brightness |-> 4, contrast |-> 3],
      [frontality |-> 0, sharpness |-> 10, face_size |-> 5, brightness |-> 1, contrast |-> 0],
      [frontality |-> 0, sharpness |-> 0, face_size |-> 0, brightness |-> 0, contrast |-> 0] }

\* measurements of a face the metrics are computed from
FaceWidths == {0, 40, 60, 70, 90, 100, 130}
Variances == {0, 25, 50, 175, 300, 500}
Brightnesses == {0, 15, 30, 55, 80, 180, 205, 230, 240, 255}
StdDevs == {0, 5, 15, 22, 50, 80}
Yaws == {-100, -50, -3, 0, 5, 10, 30, 50, 90}
Pitches == {-49, 0, 2, 5, 8, 49, 90}

QualityInit ==
    /\ pc = "start"
    /\ cfgv = [top_n |-> 3, skip_start |-> 0, skip_end |-> 0]
    /\ cap_opened = FALSE
    /\ frame_count = 0
    /\ elapsed = cooldown_seconds
    /\ capture = NoCapture
    /\ selection = NoSelection
    /\ fusion = NoFusion
    /\ api_response = NoResponse
    /\ fail_streak = 0
    /\ sess = NoSession
    /\ ev = Event("none")
    /\ workers = <<>>
    /\ manager = None
    /\ \/ \E w \in FaceWidths, v \in Variances, m \in Brightnesses, sd \in StdDevs :
             quality = [kind |-> "metrics", done |-> FALSE, face_width |-> w,
                        variance |-> v, mean_brightness |-> m, std_dev |-> sd,
                        yaw |-> 0, pitch |-> 0]
       \/ \E y \in Yaws, p \in Pitches :
             quality = [kind |-> "metrics", done |-> FALSE, face_width |-> 100,
                        variance |-> 300, mean_brightness |-> 130, std_dev |-> 50,
                        yaw |-> y, pitch |-> p]
       \/ \E sub \in [Criteria -> Decades], imp \in Importances :
             quality = [kind |-> "penalties", done |-> FALSE, sub |-> sub,
                        importance |-> imp]

\* the five metrics of compute_quality_score
ScoreMetrics ==
    /\ quality # None
    /\ quality.kind = "metrics"
    /\ ~quality.done
    /\ quality' =
          [kind |-> "metrics", done |-> TRUE, face_width |-> quality.face_width,
           variance |-> quality.variance,
           mean_brightness |-> quality.mean_brightness,
           std_dev |-> quality.std_dev, yaw |-> quality.yaw, pitch |-> quality.pitch,
           face_size |-> score_face_size(quality.face_width),
           sharpness |-> score_sharpness(quality.variance),
           brightness |-> score_brightness(quality.mean_brightness),
           contrast |-> score_contrast(quality.std_dev),
           frontality |-> score_frontality(quality.yaw, quality.pitch)]
    /\ UNCHANGED <<pc, cfgv, cap_opened, frame_count, elapsed, capture, selection,
                   fusion, api_response, fail_streak, sess, ev, workers, manager>>

\* the penalty chain of compute_quality_score
ApplyPenalties ==
    /\ quality # None
    /\ quality.kind = "penalties"
    /\ ~quality.done
    /\ quality' = [kind |-> "penalties", done |-> TRUE, sub |-> quality.sub,
                   importance |-> quality.importance,
                   total |-> PenalizedTotal(quality.sub, quality.importance)]
    /\ UNCHANGED <<pc, cfgv, cap_opened, frame_count, elapsed, capture, selection,
                   fusion, api_response, fail_streak, sess, ev, workers, manager>>

QualityNext == ScoreMetrics \/ ApplyPenalties

QualitySpec == QualityInit /\ [][QualityNext]_vars

\* ---------------------------------------------------------------------------
\* select_best_frame on a longer PersonCapture
\* ---------------------------------------------------------------------------
\* the i-th frame pair of a capture whose frames all get a score of their own
SessionFrame(i) ==
    FramePair([yunet |-> <<YuNetFace(9, 80)>>,
               score |-> QualityScore(400 + 10 * i, 500, 1000, <<30, 30, 120, 120>>),
               x |-> 90])

\* the PersonCapture capture_frames_for_person returns after n - 1 appends,
\* the capture duration over
CaptureOf(n) ==
    [frames |-> [i \in 1..n |-> SessionFrame(i)], trigger_frame |-> SessionFrame(1),
     elapsed |-> capture_duration, frame_count |-> 0, stopped |-> FALSE]

TrimInit ==
    /\ pc = "CAPTURING"
    /\ cfgv \in [top_n : {3}, skip_start : 0..MaxTrimSkip, skip_end : 0..MaxTrimSkip]
    /\ cap_opened = TRUE
    /\ frame_count = 0
    /\ elapsed = cooldown_seconds
    /\ \E n \in 1..MaxTrimFrames : capture = CaptureOf(n)
    /\ selection = NoSelection
    /\ fusion = NoFusion
    /\ api_response = NoResponse
    /\ fail_streak = 0
    /\ sess = [NoSession EXCEPT !.captures = 1]
    /\ ev = Event("start_capture")
    /\ workers = <<>>
    /\ quality = None
    /\ manager = None

TrimSpec == TrimInit /\ [][SelectBest]_vars

\* ---------------------------------------------------------------------------
\* WorkerManager: start_all, monitor, wait, stop_all
\* ---------------------------------------------------------------------------
\* the cameras of a set in the order of the configuration
CamerasIn(S) ==
    LET Chosen(c) == c \in S
    IN SelectSeq([c \in Cameras |-> c], Chosen)

\* list(self.processes.items()): the cameras that have an entry
ProcessItems(processes) == CamerasIn({c \in Cameras : processes[c] # "absent"})

\* The WorkerManager before start_all. processes holds for a camera: no
\* entry ("absent"), or a Process that is alive ("alive"), has exited with
\* code 0 ("exit_0") or has exited with another code ("exit_1"). exitcode
\* keeps how the last process of the camera ended ("none": it has not ended,
\* or was never started; "terminated": ended by stop_all).
ManagerOf(cameras) ==
    [pc |-> "start_all", processes |-> [c \in Cameras |-> "absent"],
     to_start |-> cameras, todo |-> <<>>, shutdown_event |-> FALSE,
     exitcode |-> [c \in Cameras |-> "none"]]

\* main() up to manager.start_all(args.camera): the enabled cameras, or those
\* of them named on the command line
ManagerInit ==
    /\ pc = "start"
    /\ cfgv = [top_n |-> 3, skip_start |-> 0, skip_end |-> 0]
    /\ cap_opened = FALSE
    /\ frame_count = 0
    /\ elapsed = cooldown_seconds
    /\ capture = NoCapture
    /\ selection = NoSelection
    /\ fusion = NoFusion
    /\ api_response = NoResponse
    /\ fail_streak = 0
    /\ sess = NoSession
    /\ ev = Event("none")
    /\ workers = <<>>
    /\ quality = None
    /\ \E S \in (SUBSET Cameras) \ {{}} : manager = ManagerOf(CamerasIn(S))

ManagerStep(m) ==
    /\ manager' = m
    /\ UNCHANGED <<pc, cfgv, cap_opened, frame_count, elapsed, capture, selection,
                   fusion, api_response, fail_streak, sess, ev, workers, quality>>

\* one iteration of the loop of start_all: start_worker(camera)
StartAllStep ==
    /\ manager # None
    /\ manager.pc = "start_all"
    /\ manager.to_start # <<>>
    /\ LET c == Head(manager.to_start)
       IN ManagerStep([manager EXCEPT
                         !.processes[c] = IF @ = "absent" THEN "alive" ELSE @,
                         !.to_start = Tail(@)])

\* start_all has returned, wait() calls monitor()
Wait ==
    /\ manager # None
    /\ manager.pc = "start_all"
    /\ manager.to_start = <<>>
    /\ ManagerStep([manager EXCEPT !.pc = "monitor"])

\* the worker process of camera c ends: run_visitor_counter returns (code 0)
\* or raises (code 1)
WorkerExit(c, code) ==
    /\ manager # None
    /\ manager.processes[c] = "alive"
    /\ ManagerStep([manager EXCEPT !.processes[c] = code, !.exitcode[c] = code])

\* top of the while loop of monitor: the snapshot of the processes, or the
\* end of the loop when shutdown_event is set
MonitorLoop ==
    /\ manager # None
    /\ manager.pc = "monitor"
    /\ ManagerStep(IF manager.shutdown_event
                   THEN [manager EXCEPT !.pc = "stop_all"]
                   ELSE [manager EXCEPT !.pc = "pass",
                                        !.todo = ProcessItems(manager.processes)])

\* one iteration of the for loop of monitor: the entry of a process that is
\* not alive is deleted
MonitorCheck ==
    /\ manager # None
    /\ manager.pc = "pass"
    /\ manager.todo # <<>>
    /\ LET c == Head(manager.todo)
       IN ManagerStep([manager EXCEPT
                         !.processes[c] = IF @ \in {"exit_0", "exit_1"}
                                          THEN "absent" ELSE @,
                         !.todo = Tail(@)])

\* time.sleep(1) at the end of the while loop of monitor
MonitorSleep ==
    /\ manager # None
    /\ manager.pc = "pass"
    /\ manager.todo = <<>>
    /\ ManagerStep([manager EXCEPT !.pc = "monitor"])

\* stop_all: shutdown_event is set, the processes that are alive are
\* terminated, self.processes is cleared
stop_all(m) ==
    [m EXCEPT !.pc = "stopped", !.shutdown_event = TRUE,
              !.processes = [c \in Cameras |-> "absent"],
              !.exitcode = [c \in Cameras |-> IF m.processes[c] = "alive"
                                               THEN "terminated" ELSE @[c]],
              !.to_start = <<>>, !.todo = <<>>]

\* the finally clause of wait(), monitor having returned
StopAll ==
    /\ manager # None
    /\ manager.pc = "stop_all"
    /\ ManagerStep(stop_all(manager))

\* SIGINT or SIGTERM: signal_handler runs stop_all and sys.exit(0); inside
\* wait() the finally clause is then still to run, before it main() is left
Interrupt ==
    /\ manager # None
    /\ manager.pc \in {"start_all", "monitor", "pass"}
    /\ ManagerStep([stop_all(manager) EXCEPT
                      !.pc = IF manager.pc = "start_all" THEN "exited" ELSE "stop_all"])

\* the steps of the manager's own thread
ManagerThread == StartAllStep \/ Wait \/ MonitorLoop \/ MonitorCheck \/ MonitorSleep \/ StopAll

ManagerNext ==
    \/ StartAllStep
    \/ Wait
    \/ \E c \in Cameras, code \in {"exit_0", "exit_1"} : WorkerExit(c, code)
    \/ MonitorLoop
    \/ MonitorCheck
    \/ MonitorSleep
    \/ StopAll
    \/ Interrupt

ManagerSpec == ManagerInit /\ [][ManagerNext]_vars

\* the manager's thread is scheduled as long as it has a step to take; the
\* worker processes need not end and no signal need arrive
ManagerFairSpec == ManagerSpec /\ WF_vars(ManagerThread)

\* ===========================================================================
\* Properties
\* ===========================================================================
Terminal == {"GATED_OUT", "REJECTED", "SENT"}
Active == {"DETECTED", "CAPTURING", "SCORED", "FUSING"} \cup Terminal

\* C1: every terminal outcome of a session starts the cooldown, and while
\* less than cooldown_seconds have passed since then no step of the main loop
\* invokes the fast detector or keeps the frame it read: the worker stays in
\* the scanning loop with no capture.
C1_CooldownDropsFrames ==
    [][ /\ pc \in Terminal => (pc' = "scan" /\ elapsed' = 0)
        /\ (pc = "scan" /\ elapsed < cooldown_seconds)
              => (~ev'.detect /\ pc' = "scan" /\ capture' = NoCapture) ]_vars

\* a sampled frame was read and dropped during the cooldown of an ended session
C1_Witness ==
    /\ ev.op = "cooldown_drop"
    /\ ev.cooldown
    /\ sess.outcome \in Terminal

\* C2: a session whose best total score is below min_quality_score ends at
\* the quality gate: it is never fused and api.identify is never called for it.
C2_GatedOutNeverIdentified ==
    (sess.scored /\ sess.best_total < min_quality_score)
        => /\ sess.identify_calls = 0
           /\ sess.outcome \in {"NONE", "GATED_OUT"}
           /\ pc \in {"SCORED", "GATED_OUT", "scan"}
           /\ ~fusion.ran

\* a session whose best frame scored below the gate was gated out
C2_Witness ==
    /\ pc = "GATED_OUT"
    /\ sess.outcome = "GATED_OUT"
    /\ sess.best_total = 200
    /\ sess.identify_calls = 0

\* C3: when fusion returns no embedding the session is rejected without a
\* call of api.identify, and every call of api.identify is given an embedding
\* fused from at least one frame.
C3_RejectedNeverIdentified ==
    /\ (fusion.ran /\ fusion.fused_embedding = None)
          => (pc = "REJECTED" /\ sess.identify_calls = 0)
    /\ sess.outcome = "REJECTED" => sess.identify_calls = 0
    /\ sess.identify_calls > 0 => sess.identify_arg >= 1

\* a session whose best score passed the quality gate was rejected by fusion
C3_Witness ==
    /\ pc = "REJECTED"
    /\ sess.best_total >= min_quality_score
    /\ selection.scored_frames # <<>>
    /\ fusion.ran
    /\ fusion.fused_embedding = None

\* C4: from the triggering detection to the terminal outcome of a session no
\* step invokes the fast detector, and a session creates one PersonCapture
\* only.
C4_OneActiveSession ==
    [][ /\ pc \in Active => ~ev'.detect
        /\ sess'.captures <= 1 ]_vars

\* the capture step has consumed a frame with a detectable face
C4_Witness ==
    /\ pc = "CAPTURING"
    /\ sess.captures = 1
    /\ Len(capture.frames) >= 2
    /\ detect_face(capture.frames[2].lowres)

\* C5: a session whose capture loop met a failed read is discarded: it is
\* never scored, never fused and never sent to the identification service.
C5_DisconnectDiscardsSession ==
    sess.read_failed
        => /\ ~sess.scored
           /\ ~fusion.ran
           /\ sess.identify_calls = 0

\* C6: a failed identification (timeout, connection error, any other
\* exception, success false) marks the session ERROR and leaves the worker
\* running: the step of api.identify ends in SENT, never in termination, with
\* visitor_result ERROR for every failure, the next step starts the cooldown
\* and returns to the scanning loop, and the loop is never left from there.
C6_IdentifyFailureKeepsWorker ==
    [][ /\ (pc = "FUSING" /\ fusion.ran)
              => /\ pc' = "SENT"
                 /\ sess'.identify_calls = sess.identify_calls + 1
                 /\ ~api_response'.success => sess'.visitor_result = "ERROR"
        /\ (pc = "SENT" /\ ~api_response.success)
              => /\ sess.visitor_result = "ERROR"
                 /\ pc' = "scan"
                 /\ elapsed' = 0
        /\ (pc = "scan" /\ sess.visitor_result = "ERROR")
              => pc' \in {"scan", "DETECTED"} ]_vars

\* a session was started by a detection after a session that ended in ERROR
C6_Witness ==
    /\ pc = "DETECTED"
    /\ ev.op = "detected"
    /\ ev.after = "ERROR"

\* C7: a failed read of the main loop releases and reopens the source and
\* leaves the worker at the top of the loop, about to read again, whatever
\* the number of failures before it; the scanning loop is only left by a
\* detection.
C7_ReadFailureReconnects ==
    [][ /\ ev'.op = "read_fail"
              => (pc = "scan" /\ pc' = "scan" /\ ev'.release /\ ev'.reopen)
        /\ pc = "scan" => pc' \in {"scan", "DETECTED"} ]_vars

\* the main loop is reading again after MaxFailStreak failed reads in a row
C7_Witness ==
    /\ pc = "scan"
    /\ ev.op = "read_fail"
    /\ fail_streak = MaxFailStreak
    /\ ~cap_opened

\* the frames select_best_frame scores
C9_Trimmed == TrimFrames(capture.frames, cfgv.skip_start, cfgv.skip_end)

\* C9: select_best_frame takes the fallback exactly when no trimmed frame has
\* a score; it then returns the score of the trigger frame's low-res copy and
\* no scored frames, and when the trigger frame has no score either, a score
\* with total 0 and all sub-scores 0; the session goes on to the quality gate.
C9_FallbackToTriggerFrame ==
    pc = "SCORED"
        => /\ selection.fallback
                 <=> (\A i \in 1..Len(C9_Trimmed) : C9_Trimmed[i].lowres.score = None)
           /\ selection.fallback
                 => /\ selection.scored_frames = <<>>
                    /\ selection.best_frame_lowres = capture.trigger_frame.lowres
                    /\ IF capture.trigger_frame.lowres.score = None
                       THEN /\ selection.best_score.total = 0
                            /\ selection.best_score.face_size = 0
                            /\ selection.best_score.sharpness = 0
                            /\ selection.best_score.brightness = 0
                            /\ selection.best_score.contrast = 0
                            /\ selection.best_score.frontality = 0
                       ELSE selection.best_score = capture.trigger_frame.lowres.score

\* the fallback was taken and the trigger frame had no score either
C9_Witness ==
    /\ pc = "SCORED"
    /\ selection.fallback
    /\ Len(capture.frames) >= 2
    /\ capture.trigger_frame.lowres.score = None
    /\ selection.best_score.total = 0

RECURSIVE C10_Sum(_, _)
C10_Sum(details, i) ==
    IF i > Len(details) THEN 0 ELSE details[i][3][1] + C10_Sum(details, i + 1)

\* C10: when compute_fused_embedding returns an embedding, every weight of its
\* contributions is positive and the weights sum to 1: the weights are
\* fractions of one positive denominator and their numerators add up to it.
C10_WeightsSumToOne ==
    (fusion.ran /\ fusion.fused_embedding # None)
        => /\ Len(fusion.fusion_details) >= 1
           /\ \A i \in 1..Len(fusion.fusion_details) :
                 /\ fusion.fusion_details[i][3][1] > 0
                 /\ fusion.fusion_details[i][3][2] > 0
                 /\ fusion.fusion_details[i][3][2] = fusion.fusion_details[1][3][2]
           /\ C10_Sum(fusion.fusion_details, 1) = fusion.fusion_details[1][3][2]

\* three frames of two different scores were fused
C10_Witness ==
    /\ fusion.ran
    /\ fusion.fused_embedding # None
    /\ Len(fusion.fusion_details) = 3
    /\ fusion.fusion_details[1][1] # fusion.fusion_details[3][1]

\* the scored frames of the session that pass the gates of the fusion loop
QualifyingFrames ==
    LET Passes(e) == Qualifies(e, min_quality_score, min_detection_score)
    IN SelectSeq(selection.scored_frames, Passes)

\* C11: when exactly one scored frame passes the gates of the fusion loop,
\* compute_fused_embedding returns one contribution, of that frame, with
\* weight 1, and the fused embedding is that frame's embedding scaled to unit
\* length.
C11_SingleFrameFusion ==
    (fusion.ran /\ Len(QualifyingFrames) = 1)
        => /\ fusion.fused_embedding # None
           /\ Len(fusion.fused_embedding.terms) = 1
           /\ fusion.fused_embedding.terms[1].emb = QualifyingFrames[1].hires
           /\ fusion.fused_embedding.terms[1].w[1] = fusion.fused_embedding.terms[1].w[2]
           /\ Len(fusion.fusion_details) = 1
           /\ fusion.fusion_details[1][3][1] = fusion.fusion_details[1][3][2]
           /\ SameUnitVector(WeightedSum(fusion.fused_embedding.terms),
                             Embedding(QualifyingFrames[1].hires))

\* fusion ran on three scored frames of which only the last passes the gates
C11_Witness ==
    /\ fusion.ran
    /\ Len(selection.scored_frames) = 3
    /\ Len(QualifyingFrames) = 1
    /\ QualifyingFrames[1] = selection.scored_frames[3]
    /\ cfgv.top_n = 3

\* C12: the frame and the bbox compute_fused_embedding returns for the upload
\* are the low-res copy of the first scored frame that passes the gates and
\* the bbox found on that copy, and the hi-res and low-res images of every
\* scored entry are the two copies of one captured frame, scored on its
\* low-res copy.
C12_FrameAndBboxOfOneEntry ==
    /\ (fusion.ran /\ fusion.fused_embedding # None)
          => /\ QualifyingFrames # <<>>
             /\ fusion.api_frame = QualifyingFrames[1].lowres
             /\ fusion.api_bbox = QualifyingFrames[1].score.bbox
             /\ fusion.api_bbox = compute_quality_score(fusion.api_frame).bbox
    /\ \A i \in 1..Len(selection.scored_frames) :
          LET e == selection.scored_frames[i]
          IN /\ e.idx + 1 \in 1..Len(C9_Trimmed)
             /\ C9_Trimmed[e.idx + 1] = [hires |-> e.hires, lowres |-> e.lowres]
             /\ e.score = compute_quality_score(e.lowres)

\* the best scored frame failed a gate of the fusion loop: the frame and bbox
\* returned belong to a later entry, whose bbox is another one
C12_Witness ==
    /\ fusion.ran
    /\ fusion.fused_embedding # None
    /\ Len(selection.scored_frames) >= 2
    /\ QualifyingFrames[1] # selection.scored_frames[1]
    /\ fusion.api_bbox # selection.scored_frames[1].score.bbox

\* why a session with these scored frames and this best score is not sent:
\* the best score is under the quality gate; every frame that passes the
\* quality gate has no face at extraction; every such frame has a face under
\* the detector-confidence gate; anything else
C13_Cause(scored_frames, best_score) ==
    LET Candidate(e) == ~(e.score.total < min_quality_score)
        cand == SelectSeq(scored_frames, Candidate)
    IN IF best_score.total < min_quality_score THEN "low_quality"
       ELSE IF cand # <<>> /\ \A i \in 1..Len(cand) : cand[i].hires.x = 0
       THEN "no_face"
       ELSE IF cand # <<>> /\ \A i \in 1..Len(cand) :
                                cand[i].hires.x # 0 /\ cand[i].hires.x < min_detection_score
       THEN "low_confidence"
       ELSE "other"

\* what the worker reports for a session with these scored frames
C13_Reported(scored_frames, best_score) ==
    IF GateReason(best_score) # "NONE" THEN GateReason(best_score)
    ELSE FusionReason(compute_fused_embedding(scored_frames, min_quality_score,
                                              min_detection_score, cfgv.top_n))

\* sessions of one scored frame
C13_Sessions ==
    { <<[idx |-> 0, hires |-> f, lowres |-> f, score |-> f.score]>> :
         f \in {g \in Frames : g.score # None} }

\* C13: a session that ends without being sent reports one of the four named
\* rejection reasons, and no session that is rejected for another cause
\* reports the same reason.
C13_DistinctRejectionReasons ==
    pc \in {"GATED_OUT", "REJECTED"}
        => /\ sess.reason \in {"LOW_QUALITY", "NO_FACE", "LOW_CONFIDENCE",
                                "NO_VALID_FRAMES"}
           /\ \A other \in C13_Sessions :
                 (/\ C13_Reported(other, other[1].score) # "NONE"
                  /\ C13_Cause(other, other[1].score) \in
                        {"low_quality", "no_face", "low_confidence"}
                  /\ C13_Cause(selection.scored_frames, selection.best_score) \in
                        {"low_quality", "no_face", "low_confidence"}
                  /\ C13_Cause(other, other[1].score)
                        # C13_Cause(selection.scored_frames, selection.best_score))
                    => C13_Reported(other, other[1].score) # sess.reason

\* what a worker in state w can do by a step of its own
C14_OwnSteps(w) ==
    IF w.pc = "not_started" THEN {NewWorker}
    ELSE IF w.pc = "scan" THEN {WorkerRead(w, TRUE), WorkerRead(w, FALSE)}
    ELSE {WorkerCaptureRead(w), WorkerFinish(w)}

\* C14: in every step, under every interleaving, the state of each camera's
\* worker stays as it is, or advances with the clock, or changes by a step of
\* that worker alone, which leaves the workers of all other cameras as they
\* are; and a worker that is scanning, is outside its own cooldown and reads a
\* sampled frame with a face can start its capture whatever the other workers
\* are doing.
C14_WorkersIndependent ==
    /\ [][ \A d \in Cameras :
              \/ workers'[d] = workers[d]
              \/ workers'[d] = WorkerTick(workers[d])
              \/ /\ workers'[d] \in C14_OwnSteps(workers[d])
                 /\ \A e \in Cameras \ {d} : workers'[e] = workers[e] ]_vars
    /\ [](\A d \in Cameras :
            (/\ workers[d].pc = "scan"
             /\ ~InCooldown(workers[d].elapsed)
             /\ ~SkippedFrame(workers[d].frame_count + 1))
                => ENABLED (CameraRead(d, TRUE) /\ workers'[d].pc = "CAPTURING"))

\* camera 1 starts a capture while camera 2 is in the cooldown of a session
C14_Witness ==
    /\ ev.op = "detected"
    /\ ev.camera = 1
    /\ workers[1].pc = "CAPTURING"
    /\ workers[2].pc = "scan"
    /\ InCooldown(workers[2].elapsed)

\* a finished run of the penalty chain
PenaltiesDone == quality # None /\ quality.kind = "penalties" /\ quality.done
\* a finished run of the five metrics
MetricsDone == quality # None /\ quality.kind = "metrics" /\ quality.done

\* C15: the total of compute_quality_score does not fall when the sub-score
\* of one criterion with importance > 0 is replaced by a higher one (fewer
\* decades below 1), and is the same whatever the sub-score of a criterion
\* with importance 0 is.
C15_TotalMonotone ==
    PenaltiesDone =>
        \A c \in Criteria, d \in Decades :
            LET other == PenalizedTotal([quality.sub EXCEPT ![c] = d], quality.importance)
            IN /\ (quality.importance[c] > 0 /\ d <= quality.sub[c])
                     => other >= quality.total
               /\ quality.importance[c] = 0 => other = quality.total

\* frontality counts and a higher frontality sub-score gives a strictly higher
\* total, sharpness does not count
C15_Witness ==
    /\ PenaltiesDone
    /\ quality.importance.frontality > 0
    /\ quality.importance.sharpness = 0
    /\ quality.sub.frontality = 2
    /\ quality.sub.sharpness = 2
    /\ quality.total
         < PenalizedTotal([quality.sub EXCEPT !.frontality = 1], quality.importance)

\* the score 0: what base_score * 0 ^ (5 / 5) is, or less
TotalIsZero(t) == t <= base_score - 5 * ZeroFactor

\* C16: with base_score 1000 and face_size importance 5, a face_size
\* sub-score of 0.0 gives the total 0 whatever the other sub-scores and
\* importances are.
C16_ZeroFaceSizeZeroTotal ==
    (PenaltiesDone /\ quality.importance.face_size = 5
                   /\ quality.sub.face_size = ZeroFactor)
        => TotalIsZero(quality.total)

InUnitInterval(r) == r[2] > 0 /\ 0 <= r[1] /\ r[1] <= r[2]

\* C17: for a face width >= 0, a variance >= 0, a mean intensity in 0..255, a
\* standard deviation >= 0 and any yaw and pitch, each of score_face_size,
\* score_sharpness, score_brightness, score_contrast and score_frontality
\* returns a value in [0, 1].
C17_ScoresInUnitInterval ==
    MetricsDone =>
        /\ InUnitInterval(quality.face_size)
        /\ InUnitInterval(quality.sharpness)
        /\ InUnitInterval(quality.brightness)
        /\ InUnitInterval(quality.contrast)
        /\ InUnitInterval(quality.frontality)

\* a face between the zero and the critical width, a sharpness above the good
\* value and a brightness above the critical high value
C17_Witness ==
    /\ MetricsDone
    /\ quality.face_width = 70
    /\ quality.face_size = <<1, 16>>
    /\ quality.variance = 500
    /\ quality.sharpness = <<1, 1>>
    /\ quality.mean_brightness = 240
    /\ quality.brightness = <<18, 125>>
    /\ quality.std_dev = 5
    /\ quality.contrast = <<1, 30>>

\* C18: score_frontality is 1.0 at yaw = 0, pitch = 0, strictly below 0.3
\* for every |yaw| beyond the critical yaw, and 0 where |yaw| has reached
\* 90 degrees.
C18_FrontalityBeyondCriticalYaw ==
    MetricsDone =>
        /\ (quality.yaw = 0 /\ quality.pitch = 0) => quality.frontality = <<1, 1>>
        /\ Abs(quality.yaw) > Thresholds.frontality.critical_yaw
              => RatLess(quality.frontality, <<3, 10>>)
        /\ Abs(quality.yaw) >= 90 => quality.frontality = <<0, 1>>

\* the positions of a worker that holds the PersonCapture of a session
C19_HasCapture ==
    pc \in {"CAPTURING", "SCORED", "GATED_OUT", "FUSING", "REJECTED", "SENT"}

\* C19: from the start of the capture to the end of the session, whatever
\* was read and whatever the outcome, frames[0] of the PersonCapture is its
\* trigger_frame, the FramePair of the frame the detection was made on.
C19_TriggerFrameFirst ==
    C19_HasCapture =>
        /\ capture.trigger_frame # None
        /\ detect_face(capture.trigger_frame.hires)
        /\ Len(capture.frames) >= 1
        /\ capture.frames[1] = capture.trigger_frame

\* the first read of the capture loop failed and the session was rejected
\* after scoring and fusion
C19_Witness ==
    /\ pc = "REJECTED"
    /\ sess.read_failed
    /\ capture.frame_count = 0
    /\ Len(capture.frames) = 1
    /\ fusion.ran

\* C20: while the capture loop runs a step leaves the frames of the
\* PersonCapture alone or appends one FramePair behind them; trimming,
\* scoring, sorting, the quality gate, fusion and identification leave them
\* as they are, and every scored entry is the frame pair at its index of
\* the trimmed frames.
C20_CaptureSequenceStable ==
    [][ /\ (pc = "CAPTURING" /\ pc' = "CAPTURING")
              => \/ capture'.frames = capture.frames
                 \/ /\ Len(capture'.frames) = Len(capture.frames) + 1
                    /\ SubSeq(capture'.frames, 1, Len(capture.frames)) = capture.frames
        /\ (pc \in {"CAPTURING", "SCORED", "FUSING"}
               /\ pc' \in {"SCORED", "GATED_OUT", "FUSING", "REJECTED", "SENT"})
              => /\ capture'.frames = capture.frames
                 /\ \A i \in 1..Len(selection'.scored_frames) :
                       LET e == selection'.scored_frames[i]
                           trimmed == TrimFrames(capture'.frames, cfgv.skip_start,
                                                 cfgv.skip_end)
                       IN /\ e.idx + 1 \in 1..Len(trimmed)
                          /\ trimmed[e.idx + 1] = [hires |-> e.hires, lowres |-> e.lowres]
      ]_vars

\* three frames were captured, the first was trimmed off and the better of
\* the other two is the later one
C20_Witness ==
    /\ pc = "FUSING"
    /\ Len(capture.frames) = 3
    /\ cfgv.skip_start = 1
    /\ Len(selection.scored_frames) = 2
    /\ selection.scored_frames[1].idx = 1
    /\ selection.scored_frames[2].idx = 0
    /\ fusion.ran

\* frames[skip_start : n - skip_end] of Python, for non-negative skip values
\* below n together
C21_Slice == [i \in 1..(Len(capture.frames) - cfgv.skip_start - cfgv.skip_end)
                 |-> capture.frames[cfgv.skip_start + i]]

\* the frames select_best_frame is to score
C21_ToScore ==
    IF cfgv.skip_start + cfgv.skip_end < Len(capture.frames)
    THEN C21_Slice ELSE capture.frames

\* C21: select_best_frame scores exactly frames[skip_start : n - skip_end]
\* when skip_start + skip_end < n, and all n frames when the skip values
\* reach or exceed n: the scored entries are the frames of that list that
\* have a score, each with its index in that list.
C21_TrimmedFramesScored ==
    pc = "SCORED" =>
        {[idx |-> e.idx, hires |-> e.hires, lowres |-> e.lowres] :
             e \in {selection.scored_frames[k] : k \in 1..Len(selection.scored_frames)}}
          = {[idx |-> i - 1, hires |-> C21_ToScore[i].hires, lowres |-> C21_ToScore[i].lowres] :
                 i \in {j \in 1..Len(C21_ToScore) : C21_ToScore[j].lowres.score # None}}

\* 10 frames, skip_start 2 and skip_end 1: the 7 frames 2..8 are scored
C21_Witness ==
    /\ pc = "SCORED"
    /\ Len(capture.frames) = 10
    /\ cfgv.skip_start = 2
    /\ cfgv.skip_end = 1
    /\ Len(selection.scored_frames) = 7
    /\ \A k \in 1..7 : \E i \in 3..9 : selection.scored_frames[k].hires = SessionFrame(i).hires

\* C22: for every non-negative top_n, compute_fused_embedding fuses at most
\* top_n frames, and the fused frames are the first frames of the
\* score-sorted input that pass both gates, best first, with the
\* contributions listed in that order.
C22_AtMostTopNBestFirst ==
    fusion.ran =>
        /\ Len(fusion.fusion_details) <= cfgv.top_n
        /\ Len(fusion.fusion_details) = Min(cfgv.top_n, Len(QualifyingFrames))
        /\ \A i \in 1..Len(fusion.fusion_details) :
              /\ fusion.fused_embedding.terms[i].emb = QualifyingFrames[i].hires
              /\ fusion.fusion_details[i][1] = QualifyingFrames[i].score.total
              /\ fusion.fusion_details[i][2] = QualifyingFrames[i].hires.x

\* C23: every contribution of a fusion result comes from a frame whose total
\* is at least min_quality_score and in which the extractor found a face with
\* a confidence of at least min_detection_score, and a scored frame that
\* fails either gate is not among the fused frames.
C23_ContributionsPassBothGates ==
    fusion.ran =>
        /\ \A i \in 1..Len(fusion.fusion_details) :
              /\ fusion.fusion_details[i][1] >= min_quality_score
              /\ fusion.fusion_details[i][2] >= min_detection_score
              /\ fusion.fused_embedding.terms[i].emb.score.total >= min_quality_score
              /\ fusion.fused_embedding.terms[i].emb.x >= min_detection_score
        /\ \A k \in 1..Len(selection.scored_frames) :
              LET e == selection.scored_frames[k]
              IN (e.score.total < min_quality_score \/ e.hires.x < min_detection_score)
                    => \A i \in 1..Len(fusion.fusion_details) :
                          fusion.fused_embedding.terms[i].emb # e.hires

\* the best score passed the coarse gate, one scored frame is under the
\* quality gate, one under the confidence gate, and one frame is fused
C23_Witness ==
    /\ fusion.ran
    /\ ~BelowQualityGate(selection.best_score)
    /\ cfgv.top_n = 3
    /\ Len(selection.scored_frames) = 3
    /\ \E k \in 1..3 : selection.scored_frames[k].score.total < min_quality_score
    /\ \E k \in 1..3 :
          /\ selection.scored_frames[k].score.total >= min_quality_score
          /\ selection.scored_frames[k].hires.x = 50
    /\ Len(fusion.fusion_details) = 1

\* the entries among the first n extractor calls that were accepted
C24_AcceptedAmong(n) ==
    LET Passes(e) == Qualifies(e, min_quality_score, min_detection_score)
    IN Len(SelectSeq(SubSeq(fusion.extracted, 1, n), Passes))

\* C24: the extractor is not called in a session that is gated out on its
\* best score, is not called on a frame whose total is below
\* min_quality_score, and is not called once top_n frames have been accepted.
C24_ExtractorOnlyOnGatedFrames ==
    /\ (pc = "GATED_OUT" \/ ~fusion.ran) => fusion.extracted = <<>>
    /\ \A i \in 1..Len(fusion.extracted) :
          /\ fusion.extracted[i].score.total >= min_quality_score
          /\ C24_AcceptedAmong(i - 1) < cfgv.top_n

\* the scored frames without those above the quality gate in which the
\* extractor finds no face
C25_WithoutNoFace ==
    LET HasFace(e) == e.score.total < min_quality_score \/ e.hires.x # 0
    IN SelectSeq(selection.scored_frames, HasFace)

\* C25: a frame above the quality gate in which the extractor finds no face
\* is skipped on its own: fusion gives what it gives without that frame, and
\* when a frame of the session qualifies the session is not rejected.
C25_NoFaceSkipsOneFrame ==
    fusion.ran =>
        /\ fusion.fused_embedding
             = compute_fused_embedding(C25_WithoutNoFace, min_quality_score,
                                       min_detection_score, cfgv.top_n).fused_embedding
        /\ QualifyingFrames # <<>>
              => /\ fusion.fused_embedding # None
                 /\ pc # "REJECTED"

\* the best frame has no face for the extractor, the next one qualifies and
\* is fused
C25_Witness ==
    /\ fusion.ran
    /\ Len(selection.scored_frames) >= 2
    /\ selection.scored_frames[1].score.total >= min_quality_score
    /\ selection.scored_frames[1].hires.x = 0
    /\ Qualifies(selection.scored_frames[2], min_quality_score, min_detection_score)
    /\ fusion.fused_embedding # None
    /\ fusion.fused_embedding.terms[1].emb = selection.scored_frames[2].hires

\* C26: the fast detector is offered a frame only by a successful read of the
\* scanning loop that brings the count of read frames to a multiple of
\* process_every_n while the worker is not in cooldown, and a session is
\* started only by such an offer, on a frame in which YuNet reports a face
\* of at least MIN_DET_CONF; the detection has at least that confidence.
C26_SampledConfidentDetection ==
    [][ /\ (ev'.detect /\ ev' # ev)
              => /\ pc = "scan"
                 /\ (frame_count + 1) % process_every_n = 0
                 /\ frame_count' = 0
                 /\ ~(elapsed < cooldown_seconds)
        /\ pc' = "DETECTED"
              => /\ pc = "scan"
                 /\ ev'.detect
                 /\ (frame_count + 1) % process_every_n = 0
                 /\ ~(elapsed < cooldown_seconds)
                 /\ \E i \in 1..Len(capture'.trigger_frame.hires.yunet) :
                       capture'.trigger_frame.hires.yunet[i].score >= MIN_DET_CONF
                 /\ DetectedFace(capture'.trigger_frame.hires).score >= MIN_DET_CONF
      ]_vars

\* a session was started by a frame in which the largest face is under
\* MIN_DET_CONF and a smaller one is not
C26_Witness ==
    /\ pc = "DETECTED"
    /\ ev.op = "detected"
    /\ ev.detect
    /\ frame_count = 0
    /\ Len(capture.trigger_frame.hires.yunet) = 2
    /\ DetectedFace(capture.trigger_frame.hires) = YuNetFace(9, 80)

\* C27: every factor enters the power clamped to [0.001, 1], so the total of
\* compute_quality_score is greater than 0, not less than
\* base_score * 0.001 ^ (sum of the importances / 5), and not greater than
\* base_score, whatever the sub-scores are, 0 included.
C27_TotalPositiveAtMostBase ==
    PenaltiesDone =>
        /\ \A c \in Criteria : ClampFactor(quality.sub[c]) \in 0..3
        /\ ~TotalIsZero(quality.total)
        /\ quality.total <= base_score
        /\ quality.total >= base_score
               - 3 * (quality.importance.frontality + quality.importance.sharpness
                        + quality.importance.face_size + quality.importance.brightness
                        + quality.importance.contrast)

\* a sub-score of 0 and a sub-score above 1, both with a positive importance
C27_Witness ==
    /\ PenaltiesDone
    /\ quality.sub.face_size = ZeroFactor
    /\ quality.importance.face_size = 5
    /\ quality.sub.frontality = -1
    /\ quality.importance.frontality = 8
    /\ quality.sub.sharpness = 0
    /\ quality.sub.brightness = 0
    /\ quality.sub.contrast = 0
    /\ quality.total = base_score - 15

\* C28: after a worker process has exited with a code other than 0, a new
\* process of that camera is eventually running, unless the manager is shut
\* down.
C28_CrashedWorkerRestarted ==
    \A c \in Cameras :
        (manager.processes[c] = "exit_1")
            ~> (manager.processes[c] = "alive" \/ manager.shutdown_event)

\* C29: once wait() is monitoring and no worker process is alive any more,
\* monitor returns and stop_all has run, with or without a signal.
C29_WaitReturnsWhenWorkersDone ==
    (manager.pc \in {"monitor", "pass"}
        /\ \A c \in Cameras : manager.processes[c] # "alive")
      ~> (manager.pc = "stopped")

\* C30: a session in which select_best_frame took the trigger-frame fallback
\* has no scored frames, so fusion calls the extractor on nothing and returns
\* no embedding, api.identify is not called, and the session ends gated out
\* with LOW_QUALITY or rejected with NO_VALID_FRAMES, whatever the score of
\* the trigger frame is.
C30_FallbackNeverIdentified ==
    selection.fallback =>
        /\ selection.scored_frames = <<>>
        /\ fusion.ran => (fusion.fused_embedding = None /\ fusion.extracted = <<>>)
        /\ sess.identify_calls = 0
        /\ pc # "SENT"
        /\ pc = "GATED_OUT" => sess.reason = "LOW_QUALITY"
        /\ pc = "REJECTED" => sess.reason = "NO_VALID_FRAMES"

\* the trigger frame was trimmed off, no other frame has a score, the score
\* of the trigger frame passed the quality gate and fusion rejected the session
C30_Witness ==
    /\ pc = "REJECTED"
    /\ selection.fallback
    /\ cfgv.skip_start = 1
    /\ selection.best_score.total >= min_quality_score
    /\ selection.best_score = compute_quality_score(capture.trigger_frame.lowres)
    /\ fusion.ran
    /\ sess.reason = "NO_VALID_FRAMES"

\* the steps of the session state machine
C8_Steps ==
    { <<"start", "IDLE">>, <<"start", "terminated">>,
      <<"IDLE", "DETECTED">>, <<"DETECTED", "CAPTURING">>,
      <<"CAPTURING", "SCORED">>, <<"SCORED", "GATED_OUT">>,
      <<"SCORED", "FUSING">>, <<"FUSING", "SENT">>, <<"FUSING", "REJECTED">>,
      <<"GATED_OUT", "COOLDOWN">>, <<"SENT", "COOLDOWN">>,
      <<"REJECTED", "COOLDOWN">>, <<"COOLDOWN", "IDLE">> }

\* C8: a session goes from IDLE through DETECTED, CAPTURING and SCORED to
\* GATED_OUT, or to FUSING and then SENT or REJECTED, and from there to
\* COOLDOWN and back to IDLE, by no other step; every session that has
\* started reaches COOLDOWN, and every cooldown ends in IDLE.
C8_SessionPath ==
    /\ [][ phase' # phase => <<phase, phase'>> \in C8_Steps ]_vars
    /\ (phase \in Active) ~> (phase = "COOLDOWN")
    /\ (phase = "COOLDOWN") ~> (phase = "IDLE")

\* the worker is scanning again after the cooldown of a session
C8_Witness ==
    /\ phase = "IDLE"
    /\ ev.op = "tick"
    /\ sess.outcome \in Terminal

====
